---- MODULE Spec2Model ----
(***************************************************************************)
(* The queue processor of app/services/queue_processor.py: the pending     *)
(* list, the processing flag, and every process_queue coroutine as a       *)
(* process whose atomic steps are the stretches of code between two awaits *)
(* (asyncio runs one coroutine at a time and switches only at an await).   *)
(*                                                                         *)
(* Ghost state, which the program does not hold: the field n of an item    *)
(* (the ordinal of the add_to_queue call that created the tuple, standing  *)
(* for the tuple's identity), enqueued, the history of the add_to_queue    *)
(* calls, and log, the history of the removals from the queue and of the   *)
(* calls the drain loop made to its collaborators.                         *)
(***************************************************************************)
EXTENDS Integers, Sequences, FiniteSets, TLC

\* ------------------------------------------------------------------ bounds
MaxItems == 2
MaxTriggers == 2

\* ------------------------------------------------------------------ inputs
ImageUrls == {"gs://b/x.jpg", "https://bad/404.jpg"}
ResultIds == {1, 2}
Counts == {0, 3}
ClockReadings == {0, 1}
Outcomes == {"ok", "error"}

Tasks == 1..MaxTriggers

\* ------------------------------------------------------------------- state
VARIABLES
    queue,       \* self.queue: the pending (image_url, result_id) tuples
    processing,  \* self.processing
    pc,          \* per process_queue call: where the coroutine is suspended
    locals,      \* per process_queue call: the local variables of the item in flight
    ntasks,      \* number of process_queue calls scheduled so far
    enqueued,    \* ghost: the add_to_queue calls so far, in call order
    log          \* ghost: the calls made to the collaborators, in issue order

vars == <<queue, processing, pc, locals, ntasks, enqueued, log>>

\* The awaits of process_queue and _process_image.
InLoop == {"download", "detect", "upload", "notify", "fallback_inner", "fallback_outer"}

\* The other positions: "unscheduled" (no such call yet), "scheduled" (not yet
\* started), "returned", and "raised" (an exception left process_queue).

NoLocals ==
    [image_url |-> "", result_id |-> 0, n |-> 0, image_bytes |-> <<>>,
     processed_bytes |-> <<>>, detected_count |-> -1, blob_name |-> <<>>,
     processed_image_url |-> <<>>, ev |-> 0]

\* ----------------------------------------------------------- collaborators
\* blob_service.download_image: the bytes behind the reference.
download_image(blob_url) == <<"bytes", blob_url>>

\* yolo_processor.detect_objects: the annotated image; the count is the model's input.
detect_objects(image_bytes) == <<"annotated", image_bytes>>

MicrosPerSecond == 1000000

\* datetime.now().strftime("%Y%m%d_%H%M%S_%f"): seconds, then microseconds.
strftime(now) == <<now \div MicrosPerSecond, now % MicrosPerSecond>>

\* A formatted string is the sequence of its parts, and "" the empty sequence.
\* f"processed/processed_{timestamp}.jpg"
BlobName(timestamp) == <<"processed/processed_">> \o timestamp \o <<".jpg">>

\* blob_service.upload_image: f"https://storage.googleapis.com/{bucket.name}/{blob_name}"
upload_image(processed_bytes, blob_name) ==
    <<"https://storage.googleapis.com/", "bucket", "/">> \o blob_name

\* settings.QUEUE_MAX_WORKERS, the size of the ThreadPoolExecutor (default).
QUEUE_MAX_WORKERS == 4

\* ------------------------------------------------------------- ghost log
Event(op, n, arg) == [op |-> op, n |-> n, arg |-> arg, st |-> "pending", val |-> <<>>]

SetRes(lg, i, st, val) == [lg EXCEPT ![i].st = st, ![i].val = val]

\* ------------------------------------------------------ queue processor
\* Mutant: self.queue.insert(0, ...), which puts the item at the front.
Enqueued_Front(q, item) == <<item>> \o q

\* add_to_queue: self.queue.append((image_url, result_id))
Enqueued(q, item) == Append(q, item)

\* Mutant: the guard on the flag is missing.
AlreadyDraining_Never == FALSE

\* process_queue, line 32: if self.processing: return
AlreadyDraining == processing

\* Mutant: while len(self.queue) > 1, which leaves the last item behind.
QueueIsEmpty_OffByOne(q) == Len(q) <= 1

\* process_queue, line 37: while self.queue
QueueIsEmpty(q) == q = <<>>

\* Mutant: self.queue[0], which reads the oldest item and leaves it queued.
Pop_Peek(q) == [item |-> Head(q), rest |-> q]

\* Mutant: self.queue.pop(), which takes the newest item.
Pop_Last(q) == [item |-> q[Len(q)], rest |-> SubSeq(q, 1, Len(q) - 1)]

\* Mutant: the queue is emptied when one item is taken.
Pop_All(q) == [item |-> Head(q), rest |-> <<>>]

\* process_queue, line 38: self.queue.pop(0)
Pop(q) == [item |-> Head(q), rest |-> Tail(q)]

\* Mutant: the blob name is reported instead of the URL the upload returned.
FinishedArgs_BlobName(loc) ==
    <<loc.result_id, loc.blob_name, "finished", loc.detected_count>>

\* The arguments of the success notification, lines 101-106.
FinishedArgs(loc) ==
    <<loc.result_id, loc.processed_image_url, "finished", loc.detected_count>>

\* Mutant: the fallback reports the status of the success path.
FailedArgs_Finished(loc) == <<loc.result_id, <<>>, "finished", 0>>

\* The arguments of the fallback notification, lines 45-50 and 112-117.
FailedArgs(loc) == <<loc.result_id, <<>>, "failed", 0>>

\* The coroutine of task t suspends at an await, having issued the call (op, arg).
Suspend(t, at, loc, lg, op, arg) ==
    /\ pc' = [pc EXCEPT ![t] = at]
    /\ log' = Append(lg, Event(op, loc.n, arg))
    /\ locals' = [locals EXCEPT ![t] = [loc EXCEPT !.ev = Len(lg) + 1]]

\* An exception leaves process_queue: the coroutine ends, nothing else is touched.
Abort(t, lg) ==
    /\ pc' = [pc EXCEPT ![t] = "raised"]
    /\ locals' = [locals EXCEPT ![t] = NoLocals]
    /\ log' = lg
    /\ UNCHANGED <<queue, processing>>

\* _process_image raised an Exception: the handler of process_queue, lines 41-50,
\* issues the fallback notification.
RaiseToHandler(t, loc, lg) ==
    Suspend(t, "fallback_outer", loc, lg, "update", FailedArgs(loc))

\* The success notification raised an Exception: the handler of _process_image,
\* lines 108-117, issues the fallback notification.
NotifyFailed(t, loc, lg) ==
    /\ Suspend(t, "fallback_inner", loc, lg, "update", FailedArgs(loc))
    /\ UNCHANGED <<queue, processing>>

\* The head of the while loop, lines 37-40 and 54, up to the first await of the
\* next item (line 69) or to the return. flag is self.processing on arrival.
LoopHead(t, lg, flag) ==
    IF QueueIsEmpty(queue)
    THEN /\ processing' = FALSE
         /\ pc' = [pc EXCEPT ![t] = "returned"]
         /\ locals' = [locals EXCEPT ![t] = NoLocals]
         /\ log' = lg
         /\ queue' = queue
    ELSE LET item == Pop(queue).item
             loc == [NoLocals EXCEPT !.image_url = item.image_url,
                                     !.result_id = item.result_id,
                                     !.n = item.n]
             lg1 == Append(lg, [Event("pop", item.n, <<item.image_url, item.result_id>>)
                                   EXCEPT !.st = "ok"])
         IN  /\ processing' = flag
             /\ queue' = Pop(queue).rest
             /\ \/ Suspend(t, "download", loc, lg1, "download", <<item.image_url>>)
                \* get_blob_storage_service() raises (line 68)
                \/ RaiseToHandler(t, loc,
                       Append(lg1, [Event("blob_service", item.n, <<>>)
                                       EXCEPT !.st = "error"]))

\* Mutant: "if self.queue" for "while self.queue": the drain ends after one item.
AfterItem_Stops(t, lg) ==
    /\ processing' = FALSE
    /\ pc' = [pc EXCEPT ![t] = "returned"]
    /\ locals' = [locals EXCEPT ![t] = NoLocals]
    /\ log' = lg
    /\ queue' = queue

\* _process_image returned normally: back to the head of the loop.
AfterItem(t, lg) == LoopHead(t, lg, processing)

\* Mutant: the try/except encloses the loop, so a failed item ends the drain.
AfterFailedItem_Stops(t, lg) ==
    /\ processing' = FALSE
    /\ pc' = [pc EXCEPT ![t] = "returned"]
    /\ locals' = [locals EXCEPT ![t] = NoLocals]
    /\ log' = lg
    /\ queue' = queue

\* The handler of process_queue is done (its fallback notification returned):
\* the loop goes on, lines 41-52 fall through to line 37.
AfterFailedItem(t, lg) == LoopHead(t, lg, processing)

\* Mutant: the inner fallback is not guarded, its exception reaches the handler
\* of process_queue.
OnInnerFallbackError_Propagates(t, loc, lg) ==
    /\ RaiseToHandler(t, loc, lg)
    /\ UNCHANGED <<queue, processing>>

\* The fallback notification of _process_image raised: logged only (lines
\* 118-119), and _process_image returns normally.
OnInnerFallbackError(t, loc, lg) == AfterItem(t, lg)

\* Mutant: the outer fallback is not guarded, its exception leaves process_queue.
OnOuterFallbackError_Raises(t, loc, lg) == Abort(t, lg)

\* The fallback notification of process_queue raised: logged only (lines 51-52).
OnOuterFallbackError(t, loc, lg) == AfterFailedItem(t, lg)

\* ------------------------------------------------------------- actions
Init ==
    /\ queue = <<>>
    /\ processing = FALSE
    /\ pc = [t \in Tasks |-> "unscheduled"]
    /\ locals = [t \in Tasks |-> NoLocals]
    /\ ntasks = 0
    /\ enqueued = <<>>
    /\ log = <<>>

add_to_queue(image_url, result_id) ==
    /\ Len(enqueued) < MaxItems
    /\ queue' = Enqueued(queue, [image_url |-> image_url, result_id |-> result_id,
                                 n |-> Len(enqueued) + 1])
    \* ghost: whether a drain was active, and whether a trigger came before
    /\ enqueued' = Append(enqueued, [image_url |-> image_url, result_id |-> result_id,
                                     active |-> processing, triggered |-> ntasks > 0])
    /\ UNCHANGED <<processing, pc, locals, ntasks, log>>

AddToQueue == \E u \in ImageUrls, r \in ResultIds : add_to_queue(u, r)

\* A caller schedules a process_queue call (background_tasks.add_task).
Trigger ==
    /\ ntasks < MaxTriggers
    /\ ntasks' = ntasks + 1
    /\ pc' = [pc EXCEPT ![ntasks + 1] = "scheduled"]
    /\ UNCHANGED <<queue, processing, locals, enqueued, log>>

\* process_queue from its first line to its first await or its return.
Start(t) ==
    /\ pc[t] = "scheduled"
    /\ IF AlreadyDraining
       THEN /\ pc' = [pc EXCEPT ![t] = "returned"]
            /\ UNCHANGED <<queue, processing, locals, log>>
       ELSE LoopHead(t, log, TRUE)
    /\ UNCHANGED <<ntasks, enqueued>>

DownloadReturns(t) ==
    /\ pc[t] = "download"
    /\ LET loc == locals[t] IN
       \/ LET bytes == download_image(loc.image_url)
          IN  Suspend(t, "detect", [loc EXCEPT !.image_bytes = bytes],
                      SetRes(log, loc.ev, "ok", bytes), "detect", bytes)
       \/ RaiseToHandler(t, loc, SetRes(log, loc.ev, "error", <<>>))
    /\ UNCHANGED <<queue, processing, ntasks, enqueued>>

DetectReturns(t) ==
    /\ pc[t] = "detect"
    /\ LET loc == locals[t] IN
       \/ \E c \in Counts, now \in ClockReadings :
             LET processed == detect_objects(loc.image_bytes)
                 blob_name == BlobName(strftime(now))
                 loc1 == [loc EXCEPT !.processed_bytes = processed,
                                     !.detected_count = c,
                                     !.blob_name = blob_name]
             IN  Suspend(t, "upload", loc1, SetRes(log, loc.ev, "ok", <<processed, c>>),
                         "upload", <<processed, blob_name>>)
       \* the name generation of lines 83-84 raises
       \/ \E c \in Counts :
             LET processed == detect_objects(loc.image_bytes)
                 loc1 == [loc EXCEPT !.processed_bytes = processed,
                                     !.detected_count = c]
                 lg1 == SetRes(log, loc.ev, "ok", <<processed, c>>)
             IN  RaiseToHandler(t, loc1,
                     Append(lg1, [Event("name", loc.n, <<>>) EXCEPT !.st = "error"]))
       \/ RaiseToHandler(t, loc, SetRes(log, loc.ev, "error", <<>>))
    /\ UNCHANGED <<queue, processing, ntasks, enqueued>>

UploadReturns(t) ==
    /\ pc[t] = "upload"
    /\ LET loc == locals[t] IN
       \/ LET url == upload_image(loc.processed_bytes, loc.blob_name)
              loc1 == [loc EXCEPT !.processed_image_url = url]
          IN  Suspend(t, "notify", loc1, SetRes(log, loc.ev, "ok", url),
                      "update", FinishedArgs(loc1))
       \/ RaiseToHandler(t, loc, SetRes(log, loc.ev, "error", <<>>))
    /\ UNCHANGED <<queue, processing, ntasks, enqueued>>

NotifyReturns(t) ==
    /\ pc[t] = "notify"
    /\ \/ AfterItem(t, SetRes(log, locals[t].ev, "ok", <<>>))
       \/ NotifyFailed(t, locals[t], SetRes(log, locals[t].ev, "error", <<>>))
    /\ UNCHANGED <<ntasks, enqueued>>

FallbackInnerReturns(t) ==
    /\ pc[t] = "fallback_inner"
    /\ \/ AfterItem(t, SetRes(log, locals[t].ev, "ok", <<>>))
       \/ OnInnerFallbackError(t, locals[t], SetRes(log, locals[t].ev, "error", <<>>))
    /\ UNCHANGED <<ntasks, enqueued>>

FallbackOuterReturns(t) ==
    /\ pc[t] = "fallback_outer"
    /\ \/ AfterFailedItem(t, SetRes(log, locals[t].ev, "ok", <<>>))
       \/ OnOuterFallbackError(t, locals[t], SetRes(log, locals[t].ev, "error", <<>>))
    /\ UNCHANGED <<ntasks, enqueued>>

\* The task of a process_queue call is cancelled while it awaits: CancelledError
\* is no Exception, so neither handler catches it.
Cancel(t) ==
    /\ pc[t] \in InLoop
    /\ Abort(t, SetRes(log, locals[t].ev, "cancelled", <<>>))
    /\ UNCHANGED <<ntasks, enqueued>>

Step(t) ==
    \/ Start(t)
    \/ DownloadReturns(t)
    \/ DetectReturns(t)
    \/ UploadReturns(t)
    \/ NotifyReturns(t)
    \/ FallbackInnerReturns(t)
    \/ FallbackOuterReturns(t)

Next ==
    \/ AddToQueue
    \/ Trigger
    \/ \E t \in Tasks : Step(t)

Spec == Init /\ [][Next]_vars

NextCancel ==
    \/ Next
    \/ \E t \in Tasks : Cancel(t)

SpecCancel == Init /\ [][NextCancel]_vars

\* ------------------------------------------------------ the entry point
\* The /process-images handler of main.py, lines 64-78: it has no await, so
\* add_to_queue and background_tasks.add_task(process_queue) are one step; the
\* scheduled call starts later.
process_images(image_url, result_id) ==
    /\ Len(enqueued) < MaxItems
    /\ ntasks < MaxTriggers
    /\ queue' = Enqueued(queue, [image_url |-> image_url, result_id |-> result_id,
                                 n |-> Len(enqueued) + 1])
    /\ enqueued' = Append(enqueued, [image_url |-> image_url, result_id |-> result_id,
                                     active |-> processing, triggered |-> ntasks > 0])
    /\ ntasks' = ntasks + 1
    /\ pc' = [pc EXCEPT ![ntasks + 1] = "scheduled"]
    /\ UNCHANGED <<processing, locals, log>>

ProcessImages == \E u \in ImageUrls, r \in ResultIds : process_images(u, r)

NextEntry ==
    \/ ProcessImages
    \/ \E t \in Tasks : Step(t)

\* Every submission goes through the handler; the event loop runs every
\* scheduled call, and every awaited step returns.
SpecEntry == Init /\ [][NextEntry]_vars /\ \A t \in Tasks : WF_vars(Step(t))

\* --------------------------------------------------- reading the history
Items == 1..Len(enqueued)

LogIdx == 1..Len(log)

Stages == {"download", "detect", "upload"}

IsUpdate(e) == e.op = "update"

IsFinished(e) == e.op = "update" /\ e.arg[3] = "finished"

IsFailed(e) == e.op = "update" /\ e.arg[3] = "failed"

\* The notifier Update calls made for item n, in issue order.
UpdatesOf(n) == SelectSeq(log, LAMBDA e : e.op = "update" /\ e.n = n)

\* The items in removal order.
PopOrder == SelectSeq(log, LAMBDA e : e.op = "pop")

Popped(n) == \E i \in LogIdx : log[i].op = "pop" /\ log[i].n = n

Active == {t \in Tasks : pc[t] \in InLoop}

\* Item n was removed and every call made for it has returned.
Completed(n) ==
    /\ Popped(n)
    /\ \A i \in LogIdx : log[i].n = n => log[i].st \in {"ok", "error"}

\* No drain is active and nothing is pending.
Idle == ~processing /\ Active = {}

\* ----------------------------------------------------------------- C1
\* C1: at any time at most one process_queue call is inside the drain loop.
C1_SingleActiveDrain == Cardinality(Active) <= 1

\* A second process_queue call returned at once while the first one was draining.
C1_Witness ==
    \E t1, t2 \in Tasks :
        /\ pc[t1] \in InLoop
        /\ pc[t2] = "returned"
        /\ processing
        /\ queue # <<>>

\* ----------------------------------------------------------------- C2
\* The scenario of C2: every add_to_queue came before the one trigger, and the
\* drain it started has returned.
C2_Scenario ==
    /\ ntasks = 1
    /\ pc[1] = "returned"
    /\ enqueued # <<>>
    /\ \A n \in Items : ~enqueued[n].triggered

SameResultIds ==
    {log[i].arg[1] : i \in {j \in LogIdx : IsUpdate(log[j])}}
        = {enqueued[n].result_id : n \in Items}

\* C2 as stated: after enqueues and one drain, every item has exactly one
\* notifier Update call, and the resultIds notified are the resultIds enqueued.
C2_Original ==
    C2_Scenario =>
        /\ \A n \in Items : Len(UpdatesOf(n)) = 1
        /\ SameResultIds

\* C2 as amended: every item has one Update call, or two when the first was a
\* Finished call that returned an error and the second is the Failed fallback;
\* every call carries the item's resultId; no call is made for anything else.
C2_NoLossNoDuplication ==
    (Idle /\ queue = <<>>) =>
        /\ \A n \in Items :
             LET U == UpdatesOf(n) IN
             /\ Len(U) \in {1, 2}
             /\ \A k \in 1..Len(U) : U[k].arg[1] = enqueued[n].result_id
             /\ Len(U) = 2 <=> (IsFinished(U[1]) /\ U[1].st = "error")
             /\ Len(U) = 2 => IsFailed(U[2])
        /\ \A i \in LogIdx : log[i].n \in Items
        /\ SameResultIds

\* Two items were enqueued, then one trigger drained both; the first had its
\* Finished call fail and a fallback sent.
C2_Witness ==
    /\ C2_Scenario
    /\ Len(enqueued) = 2
    /\ enqueued[1].result_id # enqueued[2].result_id
    /\ Len(UpdatesOf(1)) = 2
    /\ Len(UpdatesOf(2)) = 1

\* ----------------------------------------------------------------- C3
\* C3: the notifier Update calls made for an item whose pipeline run completed
\* are one Finished call that succeeded, or one Finished call that failed and
\* then one Failed call, or one Failed call; at no time more than two calls, two
\* Finished calls, or a call after a Finished call that succeeded.
C3_NotificationPattern ==
    \A n \in Items :
        LET U == UpdatesOf(n) IN
        /\ Len(U) <= 2
        /\ Cardinality({k \in 1..Len(U) : IsFinished(U[k])}) <= 1
        /\ \A k \in 1..Len(U) : (IsFinished(U[k]) /\ U[k].st = "ok") => k = Len(U)
        /\ Completed(n) =>
             \/ Len(U) = 1 /\ IsFinished(U[1]) /\ U[1].st = "ok"
             \/ Len(U) = 2 /\ IsFinished(U[1]) /\ U[1].st = "error" /\ IsFailed(U[2])
             \/ Len(U) = 1 /\ IsFailed(U[1])

\* Item 1 completed with a failed Finished call and a failed fallback, item 2
\* completed with a single Failed call.
C3_Witness ==
    /\ Len(enqueued) = 2
    /\ Completed(1) /\ Completed(2)
    /\ Len(UpdatesOf(1)) = 2 /\ UpdatesOf(1)[2].st = "error"
    /\ Len(UpdatesOf(2)) = 1 /\ IsFailed(UpdatesOf(2)[1])

\* ----------------------------------------------------------------- C4
\* C4: items leave the queue in the order of their add_to_queue calls, and no
\* Update call of an earlier item is issued after an Update call of a later one.
C4_Fifo ==
    /\ \A k \in 1..Len(PopOrder) :
          /\ k \in Items
          /\ PopOrder[k].n = k
          /\ PopOrder[k].arg = <<enqueued[k].image_url, enqueued[k].result_id>>
    /\ \A i, j \in LogIdx :
          (i < j /\ IsUpdate(log[i]) /\ IsUpdate(log[j])) => log[i].n <= log[j].n

\* Item 2 was enqueued while the drain was working on item 1, and both have
\* been notified.
C4_Witness ==
    /\ Len(enqueued) = 2
    /\ enqueued[2].active
    /\ UpdatesOf(1) # <<>>
    /\ UpdatesOf(2) # <<>>

\* ----------------------------------------------------------------- C5
CountOf(n, ops) == Cardinality({i \in LogIdx : log[i].n = n /\ log[i].op \in ops})

\* A process_queue call that finds the flag set returns and changes nothing.
C5_Step ==
    \A t \in Tasks :
        (pc[t] = "scheduled" /\ processing /\ pc'[t] # "scheduled") =>
            /\ pc'[t] = "returned"
            /\ UNCHANGED <<queue, processing, log, locals, enqueued>>

\* Every item is removed and run through the pipeline at most once, and exactly
\* once when the drain is over.
C5_Once ==
    \A n \in Items :
        /\ CountOf(n, {"pop"}) <= 1
        /\ CountOf(n, {"download", "blob_service"}) = CountOf(n, {"pop"})
        /\ \A op \in Stages : CountOf(n, {op}) <= 1
        /\ (Idle /\ queue = <<>>) => CountOf(n, {"pop"}) = 1

\* C5: a trigger during an active drain has no effect, and whatever the number
\* of triggers every item is dequeued and run through the pipeline exactly once.
C5_IdempotentTrigger == [][C5_Step]_vars /\ []C5_Once

\* Two triggers, two items enqueued before them: the second call returned while
\* the first was still working on item 1.
C5_Witness ==
    \E t1, t2 \in Tasks :
        /\ ntasks = 2
        /\ Len(enqueued) = 2
        /\ ~enqueued[1].triggered
        /\ pc[t1] = "upload"
        /\ locals[t1].n = 1
        /\ pc[t2] = "returned"

\* ----------------------------------------------------------------- C6
\* Every call made for item n succeeded.
AllOwnCallsOk(n) == \A i \in LogIdx : log[i].n = n => log[i].st = "ok"

HasFailure(n) == \E i \in LogIdx : log[i].n = n /\ log[i].st = "error"

\* An item none of whose own calls failed went the whole success path,
\* whatever happened to the other items.
C6_OwnOutcome ==
    \A b \in Items :
        (Completed(b) /\ AllOwnCallsOk(b)) =>
            /\ \A op \in Stages : CountOf(b, {op}) = 1
            /\ Len(UpdatesOf(b)) = 1
            /\ IsFinished(UpdatesOf(b)[1])

\* A drain never leaves the loop while the queue holds an item: whatever the
\* outcome of the item in flight, it goes on with it or with the next item.
C6_Step ==
    \A t \in Tasks :
        (pc[t] \in InLoop /\ queue # <<>>) =>
            /\ pc'[t] \in InLoop
            /\ locals'[t].n \in {locals[t].n, Head(queue).n}

\* C6: a failed stage of one item does not stop the loop nor change the outcome
\* of another item.
C6_FailureIsolation == [][C6_Step]_vars /\ []C6_OwnOutcome

\* Detection failed for item 1; item 2, enqueued after it, got its Finished
\* notification.
C6_Witness ==
    /\ Len(enqueued) = 2
    /\ \E i \in LogIdx : log[i].n = 1 /\ log[i].op = "detect" /\ log[i].st = "error"
    /\ Completed(2)
    /\ Len(UpdatesOf(2)) = 1
    /\ IsFinished(UpdatesOf(2)[1])
    /\ UpdatesOf(2)[1].st = "ok"

\* ----------------------------------------------------------------- C7
\* The fallback notification task t awaits returns an error in this step.
FallbackFails(t) ==
    /\ pc[t] \in {"fallback_inner", "fallback_outer"}
    /\ log[locals[t].ev].st = "pending"
    /\ log'[locals[t].ev].st = "error"

C7_Step ==
    \A t \in Tasks :
        FallbackFails(t) =>
            /\ pc'[t] # "raised"
            /\ IF queue = <<>>
               THEN pc'[t] = "returned" /\ ~processing'
               ELSE /\ pc'[t] \in InLoop
                    /\ locals'[t].n = Head(queue).n
                    /\ queue' = Tail(queue)

\* C7: when the fallback notification fails too, process_queue does not raise,
\* the loop takes the next item, and the drain ends Idle on an empty queue.
C7_FallbackResilience ==
    [][C7_Step]_vars /\ [](\A t \in Tasks : pc[t] # "raised")

\* Download failed for item 1 and so did its fallback; item 2 was then taken.
C7_Witness ==
    /\ \E i \in LogIdx : log[i].n = 1 /\ log[i].op = "download" /\ log[i].st = "error"
    /\ Len(UpdatesOf(1)) = 1
    /\ UpdatesOf(1)[1].st = "error"
    /\ Popped(2)

\* ----------------------------------------------------------------- C8
\* C8: after a failed download, detection, name generation or upload of an
\* item, no later stage of it runs, it gets no Finished call, and it gets
\* exactly one Update call: (its resultId, "", Failed, 0).
C8_FailurePath ==
    \A i \in LogIdx :
        (log[i].op \in Stages \cup {"name"} /\ log[i].st = "error") =>
            LET n == log[i].n IN
            /\ \A j \in LogIdx : (j > i /\ log[j].n = n) => log[j].op = "update"
            /\ \A j \in LogIdx : log[j].n = n => ~IsFinished(log[j])
            /\ Len(UpdatesOf(n)) = 1
            /\ UpdatesOf(n)[1].arg = <<enqueued[n].result_id, <<>>, "failed", 0>>

\* The upload of item 1 failed after a detection that counted objects, and its
\* fallback call has returned.
C8_Witness ==
    /\ \E i \in LogIdx : log[i].n = 1 /\ log[i].op = "upload" /\ log[i].st = "error"
    /\ \E i \in LogIdx : log[i].n = 1 /\ log[i].op = "detect" /\ log[i].val[2] = 3
    /\ Completed(1)

\* ----------------------------------------------------------------- C9
\* C9: a Finished call comes after the item's own download, detection and
\* upload succeeded in that order, each fed with the result of the one before,
\* and carries the item's resultId, the upload's reference and the detection's
\* count.
C9_SuccessPath ==
    \A i \in LogIdx :
        IsFinished(log[i]) =>
            LET n == log[i].n IN
            \E d, c, u \in LogIdx :
                /\ d < c /\ c < u /\ u < i
                /\ log[d].n = n /\ log[d].op = "download" /\ log[d].st = "ok"
                /\ log[d].arg = <<enqueued[n].image_url>>
                /\ log[c].n = n /\ log[c].op = "detect" /\ log[c].st = "ok"
                /\ log[c].arg = log[d].val
                /\ log[u].n = n /\ log[u].op = "upload" /\ log[u].st = "ok"
                /\ log[u].arg[1] = log[c].val[1]
                /\ log[i].arg = <<enqueued[n].result_id, log[u].val, "finished",
                                  log[c].val[2]>>

\* Two items with different resultIds, references and counts were both
\* reported Finished.
C9_Witness ==
    /\ Len(enqueued) = 2
    /\ \E i, j \in LogIdx :
          /\ IsFinished(log[i]) /\ log[i].n = 1 /\ log[i].st = "ok"
          /\ IsFinished(log[j]) /\ log[j].n = 2 /\ log[j].st = "ok"
          /\ log[i].arg[1] # log[j].arg[1]
          /\ log[i].arg[2] # log[j].arg[2]
          /\ log[i].arg[4] # log[j].arg[4]

\* ---------------------------------------------------------------- C10
\* C10: the processing flag is never set while no drain loop is running.
C10_FlagReset == processing => Active # {}

\* ---------------------------------------------------------------- C11
\* C11: an item appended while a drain is active stays under that drain until
\* it is dequeued: from its add_to_queue to its removal the flag is set and a
\* process_queue call is inside the loop, so the drain that was running takes
\* it before it returns to Idle.
C11_PickedUpBySameDrain ==
    \A n \in Items :
        (enqueued[n].active /\ ~Popped(n)) =>
            /\ processing
            /\ Active # {}
            /\ \E k \in 1..Len(queue) : queue[k].n = n

\* One trigger only: item 2 was appended while the drain awaited a step of
\* item 1, was processed, and the drain is back to Idle.
C11_Witness ==
    /\ ntasks = 1
    /\ Len(enqueued) = 2
    /\ enqueued[2].active
    /\ Completed(2)
    /\ Idle

\* ---------------------------------------------------------------- C12
\* A step that is an add_to_queue call: the old queue is a prefix of the new
\* one, which has one more item, the one given; nothing else changes.
C12_Step ==
    (Len(enqueued') # Len(enqueued)) =>
        /\ Len(enqueued') = Len(enqueued) + 1
        /\ Len(queue') = Len(queue) + 1
        /\ SubSeq(queue', 1, Len(queue)) = queue
        /\ queue'[Len(queue')].image_url = enqueued'[Len(enqueued')].image_url
        /\ queue'[Len(queue')].result_id = enqueued'[Len(enqueued')].result_id
        /\ UNCHANGED <<processing, pc, locals, ntasks, log>>

\* C12: add_to_queue is possible in every state, appends exactly one item at
\* the tail, and leaves the items already queued, their order, the flag, every
\* process_queue call and the collaborators untouched.
C12_EnqueueFrame ==
    /\ [][C12_Step]_vars
    /\ [](Len(enqueued) < MaxItems => ENABLED AddToQueue)

\* A second item was appended behind the first while a trigger was scheduled
\* but not started: no drain began and no collaborator was called.
C12_Witness ==
    /\ Len(queue) = 2
    /\ queue[1].n = 1 /\ queue[2].n = 2
    /\ enqueued[2].triggered
    /\ pc[1] = "scheduled"
    /\ ~processing
    /\ log = <<>>

\* ---------------------------------------------------------------- C13
Pending == {t \in Tasks : pc[t] = "scheduled"}

\* A non-empty queue has a drain at work or a trigger still to run.
C13_NoLostWakeup == queue # <<>> => ((processing /\ Active # {}) \/ Pending # {})

\* C13: through the /process-images handler no wake-up is lost, and every
\* submitted item is eventually dequeued and has a notification attempted.
C13_EntryPoint ==
    /\ []C13_NoLostWakeup
    /\ \A n \in 1..MaxItems :
          (Len(enqueued) >= n) ~> (Popped(n) /\ UpdatesOf(n) # <<>>)

\* Item 2 was submitted while the drain worked on item 1; its own trigger found
\* the flag set and returned, and the running drain has taken item 2.
C13_Witness ==
    /\ Len(enqueued) = 2
    /\ enqueued[2].active
    /\ pc[1] \in InLoop
    /\ locals[1].n = 2
    /\ pc[2] = "returned"

\* ---------------------------------------------------------------- C14
\* The items taken from the queue whose pipeline run is not over.
InFlight == {n \in Items : Popped(n) /\ ~Completed(n)}

\* The download, detect and upload tasks submitted to the executor and not
\* yet returned.
PoolTasks == {i \in LogIdx : log[i].op \in Stages /\ log[i].st = "pending"}

\* C14: at any time at most one item is in flight and at most one task is
\* submitted to or running on the worker pool, which its size allows.
C14_SequentialPipelines ==
    /\ Cardinality(InFlight) <= 1
    /\ Cardinality(PoolTasks) <= 1
    /\ Cardinality(PoolTasks) <= QUEUE_MAX_WORKERS
    /\ \A t \in Active : InFlight = {locals[t].n}

\* Item 1 is done and item 2, which waited in the queue meanwhile, has its
\* detection running on the pool.
C14_Witness ==
    /\ Len(enqueued) = 2
    /\ ~enqueued[2].active
    /\ Completed(1)
    /\ \E t \in Tasks : pc[t] = "detect" /\ locals[t].n = 2
    /\ Cardinality(PoolTasks) = 1

\* ---------------------------------------------------------------- C15
\* The flag goes from set to clear, and a process_queue call leaves the loop
\* or returns from its start with the flag clear, only on an empty queue.
C15_Step ==
    /\ (processing /\ ~processing') => (queue = <<>> /\ queue' = <<>>)
    /\ \A t \in Tasks :
          (pc[t] \in InLoop /\ pc'[t] \notin InLoop) =>
              (pc'[t] = "returned" /\ ~processing' /\ queue' = <<>>)
    /\ \A t \in Tasks :
          (pc[t] = "scheduled" /\ ~processing /\ pc'[t] = "returned") =>
              (~processing' /\ queue' = <<>>)

\* C15: the drain leaves the Draining state only when the queue is empty, so
\* at the end of a drain no item is left in the queue.
C15_DrainExit == [][C15_Step]_vars

\* Both items were drained, every trigger has run, and the drain is over.
C15_Witness ==
    /\ Len(enqueued) = 2
    /\ Completed(1) /\ Completed(2)
    /\ ntasks = 2
    /\ Pending = {}
    /\ Idle
    /\ queue = <<>>

\* ---------------------------------------------------------------- C16
\* The positions of item n in the queue.
QueuedAt(n) == {k \in 1..Len(queue) : queue[k].n = n}

\* C16: an item is in the queue exactly once until it is removed and never
\* again afterwards, it is removed at most once, and each of its download,
\* detection and upload is invoked at most once, whatever the outcome.
C16_NoRetryNoRequeue ==
    \A n \in Items :
        /\ Cardinality(QueuedAt(n)) = (IF Popped(n) THEN 0 ELSE 1)
        /\ CountOf(n, {"pop"}) <= 1
        /\ \A op \in Stages : CountOf(n, {op}) <= 1

\* Item 1 failed at its upload and its fallback failed too; the drain went on
\* to item 2 and ended, and item 1 is not back in the queue.
C16_Witness ==
    /\ Len(enqueued) = 2
    /\ \E i \in LogIdx : log[i].n = 1 /\ log[i].op = "upload" /\ log[i].st = "error"
    /\ UpdatesOf(1)[1].st = "error"
    /\ Completed(2)
    /\ Idle
    /\ queue = <<>>

\* ---------------------------------------------------------------- C17
\* The download, detection or upload that task t awaits does not return in
\* this step.
StillHung(t) ==
    /\ pc[t] \in Stages
    /\ pc'[t] = pc[t]
    /\ locals'[t].ev = locals[t].ev
    /\ log'[locals[t].ev].st = "pending"

\* While a step hangs: the flag stays set, nothing is removed from the queue,
\* no call is made to any collaborator, and a process_queue call that starts
\* returns at once.
C17_Step ==
    \A t \in Tasks :
        StillHung(t) =>
            /\ processing /\ processing'
            /\ log' = log
            /\ locals' = locals
            /\ Len(queue') >= Len(queue)
            /\ SubSeq(queue', 1, Len(queue)) = queue
            /\ \A u \in Tasks :
                  (pc[u] = "scheduled" /\ pc'[u] # "scheduled") => pc'[u] = "returned"
            /\ \A u \in Tasks : pc'[u] \in InLoop => u = t

\* C17: as long as a step of the item in flight has not completed the drain
\* stays Draining, no later item is dequeued or notified, and every further
\* trigger returns without effect.
C17_HungStepStalls == [][C17_Step]_vars

\* The detection of item 1 has not returned; item 2 waits in the queue and a
\* second trigger has come and gone.
C17_Witness ==
    /\ pc[1] = "detect"
    /\ locals[1].n = 1
    /\ log[locals[1].ev].st = "pending"
    /\ Len(queue) = 1
    /\ queue[1].n = 2
    /\ pc[2] = "returned"
    /\ UpdatesOf(2) = <<>>

\* ---------------------------------------------------------------- C18
\* The upload calls made so far, and the blob name each one was given.
Uploads == {i \in LogIdx : log[i].op = "upload"}

UploadName(i) == log[i].arg[2]

\* C18: whatever values the clock returns, no two upload calls are given the
\* same blob name.
C18_UniqueNames ==
    \A i, j \in Uploads : i # j => UploadName(i) # UploadName(j)

\* ------------------------------------------------- parallel threads
\* process_queue run by parallel threads: the statements of lines 32-37 and 54
\* are steps of their own, so other threads act between them. A call has three
\* more positions: "checked" (line 32 read the flag as clear, line 35 not yet
\* run), "test" (about to evaluate `while self.queue`, line 37) and "exiting"
\* (line 37 found the queue empty, line 54 not yet run).
InDrain == InLoop \cup {"test"}

\* Line 32: the read of self.processing.
ReadFlag(t) ==
    /\ pc[t] = "scheduled"
    /\ pc' = [pc EXCEPT ![t] = IF AlreadyDraining THEN "returned" ELSE "checked"]
    /\ UNCHANGED <<queue, processing, locals, ntasks, enqueued, log>>

\* Line 35: self.processing = True
WriteFlag(t) ==
    /\ pc[t] = "checked"
    /\ processing' = TRUE
    /\ pc' = [pc EXCEPT ![t] = "test"]
    /\ UNCHANGED <<queue, locals, ntasks, enqueued, log>>

\* Lines 37-40: the test of the loop and, the queue not being empty, the pop
\* and the pipeline up to its first wait.
TestQueue(t) ==
    /\ pc[t] = "test"
    /\ IF QueueIsEmpty(queue)
       THEN /\ pc' = [pc EXCEPT ![t] = "exiting"]
            /\ UNCHANGED <<queue, processing, locals, log>>
       ELSE LoopHead(t, log, processing)
    /\ UNCHANGED <<ntasks, enqueued>>

\* Line 54: self.processing = False
ResetFlag(t) ==
    /\ pc[t] = "exiting"
    /\ processing' = FALSE
    /\ pc' = [pc EXCEPT ![t] = "returned"]
    /\ UNCHANGED <<queue, locals, ntasks, enqueued, log>>

\* The item is done (or its failure handled): control goes back to line 37.
BackToTest(t, lg) ==
    /\ pc' = [pc EXCEPT ![t] = "test"]
    /\ locals' = [locals EXCEPT ![t] = NoLocals]
    /\ log' = lg
    /\ UNCHANGED <<queue, processing>>

NotifyReturnsPar(t) ==
    /\ pc[t] = "notify"
    /\ \/ BackToTest(t, SetRes(log, locals[t].ev, "ok", <<>>))
       \/ NotifyFailed(t, locals[t], SetRes(log, locals[t].ev, "error", <<>>))
    /\ UNCHANGED <<ntasks, enqueued>>

\* Lines 112-119: whether the fallback notification returns or raises, the
\* item is done.
FallbackInnerReturnsPar(t) ==
    /\ pc[t] = "fallback_inner"
    /\ \E st \in Outcomes : BackToTest(t, SetRes(log, locals[t].ev, st, <<>>))
    /\ UNCHANGED <<ntasks, enqueued>>

\* Lines 44-52, likewise.
FallbackOuterReturnsPar(t) ==
    /\ pc[t] = "fallback_outer"
    /\ \E st \in Outcomes : BackToTest(t, SetRes(log, locals[t].ev, st, <<>>))
    /\ UNCHANGED <<ntasks, enqueued>>

StepPar(t) ==
    \/ ReadFlag(t)
    \/ WriteFlag(t)
    \/ TestQueue(t)
    \/ ResetFlag(t)
    \/ DownloadReturns(t)
    \/ DetectReturns(t)
    \/ UploadReturns(t)
    \/ NotifyReturnsPar(t)
    \/ FallbackInnerReturnsPar(t)
    \/ FallbackOuterReturnsPar(t)

\* The race is over the flag and the queue, not over the data: the requests of
\* this specification all carry the same reference.
ThreadUrls == {"gs://b/x.jpg"}

ProcessImagesPar == \E u \in ThreadUrls, r \in ResultIds : process_images(u, r)

NextThreads ==
    \/ ProcessImagesPar
    \/ \E t \in Tasks : StepPar(t)

SpecThreads == Init /\ [][NextThreads]_vars

\* ---------------------------------------------------------------- C19
\* Two drain loops at once: two calls are each inside the loop with an item
\* in flight.
TwoDrains ==
    \E t, u \in Tasks :
        /\ t # u
        /\ pc[t] \in InLoop
        /\ pc[u] \in InLoop

\* An item is left behind: it is in the queue, the flag is clear, every request
\* has scheduled its process_queue call and every such call has returned.
LostItem ==
    /\ queue # <<>>
    /\ ~processing
    /\ ntasks = Len(enqueued)
    /\ \A t \in Tasks : pc[t] \in {"unscheduled", "returned"}

\* The requests whose item is still queued.
Queued == {queue[k].n : k \in 1..Len(queue)}

C19_TwoDrainsReached ==
    /\ TwoDrains
    /\ processing
    /\ pc[1] = "download"
    /\ pc[2] = "download"
    /\ queue = <<>>

====
